---- MODULE Spec2Model ----
(***************************************************************************)
(* Model of src/index.js: the hand-rolled SMTP client                      *)
(* (SimpleSmtp._sendViaHostinger), sendEmail and the POST /send-emails     *)
(* handler.                                                                *)
(*                                                                         *)
(* Strings are sequences of chunks (each chunk a TLA+ string); server      *)
(* responses are sequences of single characters, so that startsWith and    *)
(* split are computed and not assumed.                                     *)
(*                                                                         *)
(* One request is served.  Its sessions are numbered 1..n in the order of  *)
(* the recipients array; every per-session variable is a sequence indexed  *)
(* by that number (empty before the sessions are dispatched).              *)
(***************************************************************************)
EXTENDS Integers, Sequences, FiniteSets, TLC

VARIABLES
  mode,         \* how the transport produces events: "free" or "scripted"
  env,          \* process.env: [SMTP_USER, SMTP_PASS]
  body,         \* req.body of the POST /send-emails request
  now,          \* Date.now() while the request is dispatched
  pc,           \* position of the route: "request", "dispatched", "responded"
  response,     \* what res.status(..).json(..) sent, NoResponse before
  sentCount,    \* let sentCount   (line 190)
  failedCount,  \* let failedCount (line 191)
  details,      \* const details   (line 192)
  jobs,         \* promise jobs: sessions whose sendEmail result awaits the map callback
  socket,       \* per session: "none", "open" (handlers registered), "unhandled"
  stage,        \* per session: let stage (line 88)
  commands,     \* per session: const commands (line 94)
  messageId,    \* per session: const messageId (line 89)
  written,      \* per session: the arguments of the socket.write calls, in order
  ended,        \* per session: socket.end() has been called
  outcome,      \* per session: state of the promise of _sendViaHostinger
  script,       \* per session: the events a scripted server will produce
  pos,          \* per session: number of scripted events delivered
  nData,        \* per session, history: number of data events delivered
  posTotal,     \* per session, history: number of Positive classifications
  posRun,       \* per session, history: Positive classifications before the first Negative
  negStage,     \* per session, history: <<k>>, k the stage at the first Negative; <<>> before
  closed,       \* per session, history: a close event has been delivered
  lateEvent,    \* per session, history: an event was delivered after the promise settled
  settled       \* history: the sessions in the order in which their promises settled

reqVars  == <<mode, env, body, now, pc, response, sentCount, failedCount, details, jobs>>
sessVars == <<socket, stage, commands, messageId, written, ended, outcome>>
histVars == <<script, pos, nData, posTotal, posRun, negStage, closed, lateEvent,
              settled>>
vars     == <<reqVars, sessVars, histVars>>

----------------------------------------------------------------------------
(* Bounds of the model *)

\* most recipients in one scripted request
MaxRecipients == 2
\* most data events delivered to one session
MaxData == 11

----------------------------------------------------------------------------
(* Strings *)

Undefined  == <<"#undefined">>
NotAString == <<"#number">>
CRLF       == "\r\n"

\* JavaScript template interpolation `${v}` of a string or undefined
Str(v) == IF v = Undefined THEN <<"undefined">> ELSE v

\* String.prototype.startsWith on a sequence of characters
StartsWith(s, prefix) ==
  /\ Len(s) >= Len(prefix)
  /\ SubSeq(s, 1, Len(prefix)) = prefix

\* String.prototype.split(sep): the pieces between the occurrences of sep
RECURSIVE Split(_, _)
Split(s, sep) ==
  IF \A k \in 1..Len(s) : s[k] # sep
    THEN <<s>>
    ELSE LET k == CHOOSE k \in 1..Len(s) :
                    s[k] = sep /\ \A j \in 1..(k-1) : s[j] # sep
         IN  <<SubSeq(s, 1, k-1)>> \o Split(SubSeq(s, k+1, Len(s)), sep)

\* arr[idx] with JavaScript's zero-based index: undefined past the end
At(arr, idx) == IF idx + 1 <= Len(arr) THEN arr[idx + 1] ELSE Undefined

\* Buffer.from(s).toString('base64'), kept symbolic but never the identity
Base64(s) == <<"base64(">> \o s \o <<")">>

\* JavaScript falsiness of a request field
Falsy(v) == v = Undefined \/ v = <<>>

----------------------------------------------------------------------------
(* The values a request is drawn from *)

SenderNames == { Undefined, <<"Ann">> }
Subjects    == { <<"Hi">> }
Messages    == { Undefined, NotAString, <<"Hello", "\n", "Bye">> }
SmtpUser    == <<"me", "@", "host.com">>
SmtpPass    == <<"secret">>
Envs        == { [SMTP_USER |-> SmtpUser,  SMTP_PASS |-> SmtpPass],
                 [SMTP_USER |-> Undefined, SMTP_PASS |-> SmtpPass],
                 [SMTP_USER |-> SmtpUser,  SMTP_PASS |-> Undefined] }
Times       == { <<"1", "7">>, <<"4", "2">> }

\* the j-th address
Address(j) == <<"rcpt", ToString(j), "@", "x.org">>

\* recipient arrays of 1..n addresses: for each length the array of distinct
\* addresses and the one whose last entry repeats the first
RecipientLists(n) ==
  { [i \in 1..k |-> Address(i)] : k \in 1..n }
  \cup { [i \in 1..k |-> Address(IF i = k THEN 1 ELSE i)] : k \in 2..n }

\* req.body: recipientsType tells what JSON value recipients is
Bodies(n) ==
  { [senderName |-> sn, subject |-> su, message |-> m,
     recipientsType |-> "array", recipients |-> r] :
       sn \in SenderNames, su \in Subjects, m \in Messages,
       r \in RecipientLists(n) \cup { <<>> } }
  \cup
  { [senderName |-> <<"Ann">>, subject |-> <<"Hi">>, message |-> <<"Hello", "\n", "Bye">>,
     recipientsType |-> t, recipients |-> <<>>] : t \in { "undefined", "string" } }

----------------------------------------------------------------------------
(* Server responses and socket events *)

R220 == <<"2", "2", "0">>
R250 == <<"2", "5", "0">>
R334 == <<"3", "3", "4">>
R235 == <<"2", "3", "5">>
R354 == <<"3", "5", "4">>
R221 == <<"2", "2", "1">>
R550 == <<"5", "5", "0", " ", "R", "e", "l", "a", "y", " ",
          "d", "e", "n", "i", "e", "d">>
R421 == <<"4", "2", "1">>

\* complete response lines, with their CRLF
R250Line == <<"2", "5", "0", " ", "O", "K", "\r", "\n">>
R550Line == <<"5", "5", "0", " ", "n", "o", "\r", "\n">>

\* one response line in two deliveries
R250Head == SubSeq(R250Line, 1, 2)
R250Tail == SubSeq(R250Line, 3, Len(R250Line))

\* two response lines in one delivery
R250R250 == R250Line \o R250Line
R250R550 == R250Line \o R550Line

Responses == { R220, R250, R334, R235, R354, R221, R550, R421,
               R250Line, R250Head, R250Tail, R250R250, R250R550 }

TransportErrors == { <<"read ECONNRESET">> }

Data(r)     == [type |-> "data",    arg |-> r]
TimeoutEv   == [type |-> "timeout", arg |-> <<>>]
ErrorEv(m)  == [type |-> "error",   arg |-> m]
CloseEv     == [type |-> "close",   arg |-> <<>>]

----------------------------------------------------------------------------
(* Promises *)

Pending       == [state |-> "pending",   value |-> <<>>]
Fulfilled(v)  == [state |-> "fulfilled", value |-> v]
Rejected(e)   == [state |-> "rejected",  value |-> e]

\* a handler that forgets to reject
RejectForgotten(p, e) == p

\* a reject that replaces an outcome already there
RejectOverwrites(p, e) == Rejected(e)

\* a reject that replaces an earlier rejection
RejectReplacesReason(p, e) == IF p.state = "fulfilled" THEN p ELSE Rejected(e)

\* resolve(v) and reject(e) of a promise in state p: only a pending promise settles
Resolve(p, v) == IF p.state = "pending" THEN Fulfilled(v) ELSE p
Reject(p, e)  == IF p.state = "pending" THEN Rejected(e)  ELSE p

----------------------------------------------------------------------------
(* SimpleSmtp: the envelope and the classification of a response *)

\* this.options of new SimpleSmtp({debug: true, localMode: false})
Options ==
  [debug |-> TRUE, localMode |-> FALSE,
   auth |-> [user |-> env.SMTP_USER, pass |-> env.SMTP_PASS]]

\* message.replace(/\n/g, '<br>')
ReplaceNewlines(message) ==
  [k \in 1..Len(message) |-> IF message[k] = "\n" THEN "<br>" ELSE message[k]]

\* the object sendEmail passes to transporter.sendMail
MailOptions(senderName, recipient, subject, message) ==
  [from    |-> <<"\"">> \o senderName \o <<"\" <">> \o Str(env.SMTP_USER) \o <<">">>,
   to      |-> recipient,
   subject |-> subject,
   text    |-> message,
   html    |-> ReplaceNewlines(message)]

\* `<${Date.now()}@${mailOptions.from.split('@')[1]}>`
MessageId(mailOptions, t) ==
  <<"<">> \o t \o <<"@">> \o Str(At(Split(mailOptions.from, "@"), 1)) \o <<">">>

\* sender.split and Buffer.from throw a TypeError on undefined
EnvelopeThrows(options) ==
  options.auth.user = Undefined \/ options.auth.pass = Undefined

EnvelopeError(options) ==
  IF options.auth.user = Undefined
    THEN <<"Cannot read properties of undefined (reading 'split')">>
    ELSE <<"The first argument must be of type string or an instance of Buffer">>

\* const commands = [...]: the nine commands of a session
Commands(options, mailOptions, mid) ==
  LET sender    == options.auth.user
      recipient == mailOptions.to
      content   == IF Falsy(mailOptions.html) THEN mailOptions.text
                                              ELSE mailOptions.html
  IN  << <<"EHLO ">> \o Str(At(Split(sender, "@"), 1)) \o <<CRLF>>,
         <<"AUTH LOGIN", CRLF>>,
         Base64(options.auth.user) \o <<CRLF>>,
         Base64(options.auth.pass) \o <<CRLF>>,
         <<"MAIL FROM:<">> \o sender \o <<">", CRLF>>,
         <<"RCPT TO:<">> \o recipient \o <<">", CRLF>>,
         <<"DATA", CRLF>>,
         <<"From: ">> \o mailOptions.from \o <<CRLF, "To: ">> \o recipient
           \o <<CRLF, "Subject: ">> \o mailOptions.subject
           \o <<CRLF, "Message-ID: ">> \o mid
           \o <<CRLF, "Content-Type: text/html; charset=utf-8", CRLF, CRLF>>
           \o content \o <<CRLF, ".", CRLF>>,
         <<"QUIT", CRLF>> >>

\* a classifier that knows only the 2xx replies
IsPositiveOnly2xx(resp) == StartsWith(resp, <<"2">>)

\* a classifier that takes only the 4xx replies for failures
IsPositiveUnless4xx(resp) == ~StartsWith(resp, <<"4">>)

\* the condition of line 115: the response counts as Positive
IsPositive(resp) ==
  \/ StartsWith(resp, <<"2">>)
  \/ StartsWith(resp, <<"3">>)
  \/ StartsWith(resp, <<"3", "3", "4">>)

\* a pre-increment: commands[++stage]
CommandAtPreIncrement(cmds, stg) == At(cmds, stg + 1)

\* commands[stage++]: the command at the pointer's value before the increment
CommandAt(cmds, stg) == At(cmds, stg)

\* a stage pointer that all sessions share
SetStageShared(stg, i, v) == [j \in DOMAIN stg |-> v]

\* stage is a variable of the session's own closure (line 88)
SetStage(stg, i, v) == [stg EXCEPT ![i] = v]

\* a guard that stops one command early
CanWriteStopsEarly(stg, cmds) == stg < Len(cmds) - 1

\* the condition of line 116: there is a command left to write
CanWrite(stg, cmds) == stg < Len(cmds)

\* a close test that is content with one command less
CloseSucceedsOneEarlier(stg, cmds) == stg >= Len(cmds) - 2

\* a close that never counts as a success
CloseSucceedsNever(stg, cmds) == stg > Len(cmds)

\* the condition of line 135: a close at this stage resolves the promise
CloseSucceeds(stg, cmds) == stg >= Len(cmds) - 1

----------------------------------------------------------------------------
(* sendEmail and the route's bookkeeping *)

\* validateEmailRequest: the 400 message, or <<>> when next() is called
ValidationError(b) ==
  IF \/ Falsy(b.senderName) \/ Falsy(b.subject) \/ Falsy(b.message)
     \/ b.recipientsType = "undefined"
    THEN <<"Missing required fields">>
    ELSE IF b.recipientsType # "array" \/ Len(b.recipients) = 0
           THEN <<"Recipients must be a non-empty array">>
           ELSE <<>>

\* what the try block of sendEmail ends with, before any socket event:
\* message.replace throws on a non-string, the promise executor throws on a
\* missing credential (after tls.connect), otherwise the promise is pending
InitialOutcome(message, options) ==
  IF message = NotAString
    THEN Rejected(<<"message.replace is not a function">>)
    ELSE IF EnvelopeThrows(options)
           THEN Rejected(EnvelopeError(options))
           ELSE Pending

\* the socket of a session right after the dispatch
InitialSocket(message, options) ==
  IF message = NotAString
    THEN "none"
    ELSE IF EnvelopeThrows(options) THEN "unhandled" ELSE "open"

\* a sendEmail without its catch: the rejection goes on to the caller
SendEmailNoCatch(recipient, o) ==
  IF o.state = "fulfilled"
    THEN [kind |-> "return", recipient |-> recipient, status |-> "sent",
          error |-> <<>>]
    ELSE [kind |-> "throw", recipient |-> recipient, status |-> "failed",
          error |-> o.value]

\* sendEmail: how the awaited sendMail's outcome o becomes its completion
SendEmail(recipient, o) ==
  IF o.state = "fulfilled"
    THEN [kind |-> "return", recipient |-> recipient, status |-> "sent",
          error |-> <<>>]
    ELSE [kind |-> "return", recipient |-> recipient, status |-> "failed",
          error |-> o.value]

\* lines 205-209: the counters after one result
CountSent(result, n)   == IF result.status = "sent" THEN n + 1 ELSE n
\* a failed counter incremented for every result
CountFailedEveryResult(result, n) == n + 1

CountFailed(result, n) == IF result.status = "sent" THEN n ELSE n + 1

\* an unshift in the place of the push
PushDetailInFront(ds, result) ==
  <<[recipient |-> result.recipient, status |-> result.status,
     error |-> result.error]>> \o ds

\* line 210: details.push(result)
PushDetail(ds, result) ==
  Append(ds, [recipient |-> result.recipient, status |-> result.status,
              error |-> result.error])

NoResponse == [status |-> 0, success |-> FALSE, sent |-> 0, failed |-> 0,
               details |-> <<>>, message |-> <<>>]

----------------------------------------------------------------------------
(* Scripted servers *)

HappyScript ==
  << Data(R220), Data(R250), Data(R334), Data(R334), Data(R235),
     Data(R250), Data(R250), Data(R354), Data(R250), Data(R221), CloseEv >>

\* positive through MAIL FROM, then 550 to RCPT TO
RelayDeniedScript ==
  SubSeq(HappyScript, 1, 6) \o << Data(R550), CloseEv >>

\* silent after the EHLO
TimeoutScript == << Data(R220), TimeoutEv, CloseEv >>

\* closes right after acknowledging the message content
CloseAfterContentAckScript == SubSeq(HappyScript, 1, 9) \o << CloseEv >>

\* closes after receiving the message content, without acknowledging it
CloseBeforeContentAckScript == SubSeq(HappyScript, 1, 8) \o << CloseEv >>

\* closes during the authentication
CloseEarlyScript == SubSeq(HappyScript, 1, 3) \o << CloseEv >>

\* the connection breaks
ErrorScript == << ErrorEv(<<"read ECONNRESET">>), CloseEv >>

\* refuses the connection in its greeting
RefusedScript == << Data(R421), CloseEv >>

\* closes without a greeting
CloseAtOnceScript == << CloseEv >>

\* the reply to EHLO arrives whole, in two fragments, or together with the
\* next reply (a positive one, a negative one)
WholeLineScript   == << Data(R220), Data(R250Line), CloseEv >>
FragmentedScript  == << Data(R220), Data(R250Head), Data(R250Tail), CloseEv >>
BatchedScript     == << Data(R220), Data(R250R250), CloseEv >>
BatchedDenyScript == << Data(R220), Data(R250R550), CloseEv >>

Scripts == { HappyScript, RelayDeniedScript, TimeoutScript,
             CloseAfterContentAckScript, CloseBeforeContentAckScript,
             CloseEarlyScript, ErrorScript, RefusedScript, CloseAtOnceScript,
             WholeLineScript, FragmentedScript, BatchedScript,
             BatchedDenyScript }

\* the scripts of concurrent sessions: one for each kind of outcome
BulkScripts == { CloseAfterContentAckScript, TimeoutScript, ErrorScript,
                 RefusedScript, CloseAtOnceScript }

----------------------------------------------------------------------------
(* The state after construction *)

Sessions == 1..Len(socket)

InitRequest(m, bodies) ==
  /\ mode = m
  /\ env \in Envs
  /\ body \in bodies
  /\ now \in Times
  /\ pc = "request"
  /\ response = NoResponse
  /\ sentCount = 0
  /\ failedCount = 0
  /\ details = <<>>
  /\ jobs = <<>>
  /\ socket = <<>>
  /\ stage = <<>>
  /\ commands = <<>>
  /\ messageId = <<>>
  /\ written = <<>>
  /\ ended = <<>>
  /\ outcome = <<>>
  /\ pos = <<>>
  /\ nData = <<>>
  /\ posTotal = <<>>
  /\ posRun = <<>>
  /\ negStage = <<>>
  /\ closed = <<>>
  /\ lateEvent = <<>>
  /\ settled = <<>>

\* any event at any time, one recipient
Init ==
  /\ InitRequest("free", Bodies(1))
  /\ script = [i \in 1..Len(body.recipients) |-> <<>>]

\* every session's server follows a script: a single session any of them,
\* concurrent sessions the short ones
InitScripted ==
  /\ InitRequest("scripted", Bodies(MaxRecipients))
  /\ script \in [1..Len(body.recipients) ->
                   IF Len(body.recipients) = 1 THEN Scripts ELSE BulkScripts]

----------------------------------------------------------------------------
(* POST /send-emails: validateEmailRequest, then the synchronous part of the *)
(* route: recipients.map starts every session up to its first await          *)

PostSendEmails ==
  /\ pc = "request"
  /\ IF ValidationError(body) # <<>>
       THEN /\ response' = [NoResponse EXCEPT !.status = 400,
                                              !.message = ValidationError(body)]
            /\ pc' = "responded"
            /\ UNCHANGED <<jobs, sessVars, pos, nData, posTotal, posRun,
                           negStage, closed, lateEvent, settled>>
       ELSE LET n   == Len(body.recipients)
                opt == Options
                mo(i) == MailOptions(body.senderName, body.recipients[i],
                                     body.subject, body.message)
                started == body.message # NotAString
                built   == started /\ ~EnvelopeThrows(opt)
                first   == InitialOutcome(body.message, opt)
            IN  /\ socket' = [i \in 1..n |-> InitialSocket(body.message, opt)]
                /\ stage' = [i \in 1..n |-> 0]
                /\ messageId' = [i \in 1..n |->
                      IF started THEN MessageId(mo(i), now) ELSE <<>>]
                /\ commands' = [i \in 1..n |->
                      IF built THEN Commands(opt, mo(i), MessageId(mo(i), now))
                               ELSE <<>>]
                /\ written' = [i \in 1..n |-> <<>>]
                /\ ended' = [i \in 1..n |-> FALSE]
                /\ outcome' = [i \in 1..n |-> first]
                /\ jobs' = IF first.state = "pending" THEN <<>>
                                                      ELSE [i \in 1..n |-> i]
                /\ settled' = IF first.state = "pending" THEN <<>>
                                                         ELSE [i \in 1..n |-> i]
                /\ pos' = [i \in 1..n |-> 0]
                /\ nData' = [i \in 1..n |-> 0]
                /\ posTotal' = [i \in 1..n |-> 0]
                /\ posRun' = [i \in 1..n |-> 0]
                /\ negStage' = [i \in 1..n |-> <<>>]
                /\ closed' = [i \in 1..n |-> FALSE]
                /\ lateEvent' = [i \in 1..n |-> FALSE]
                /\ pc' = "dispatched"
                /\ UNCHANGED response
  /\ UNCHANGED <<mode, env, body, now, sentCount, failedCount, details, script>>

----------------------------------------------------------------------------
(* Socket events *)

\* a wait that ends with the first callback
AnyCallbackDone == Len(details) >= 1

\* every map callback has run: Promise.all is fulfilled
AllCallbacksDone == Len(details) = Len(socket)

\* promise jobs run before the next socket event is dispatched
NoPendingJobs == jobs = <<>> /\ ~(pc = "dispatched" /\ AllCallbacksDone)

\* session i's transport produces event ev now
Offers(i, ev) ==
  IF mode = "free"
    THEN TRUE
    ELSE pos[i] < Len(script[i]) /\ script[i][pos[i] + 1] = ev

CanDeliver(i) ==
  /\ pc # "request"
  /\ socket[i] = "open"
  /\ NoPendingJobs

\* bookkeeping common to the four handlers: the promise job of a promise that
\* settled in this event, and the history of the session
Delivered(i) ==
  /\ jobs' = IF outcome[i].state = "pending" /\ outcome'[i].state # "pending"
               THEN Append(jobs, i) ELSE jobs
  /\ settled' = IF outcome[i].state = "pending" /\ outcome'[i].state # "pending"
                  THEN Append(settled, i) ELSE settled
  /\ pos' = [pos EXCEPT ![i] = IF mode = "free" THEN @ ELSE @ + 1]
  /\ lateEvent' = [lateEvent EXCEPT ![i] = @ \/ outcome[i].state # "pending"]
  /\ UNCHANGED <<mode, env, body, now, pc, response, sentCount, failedCount,
                 details, socket, commands, messageId, script>>

\* socket.on('data', ...)
OnData(i) ==
  /\ CanDeliver(i)
  /\ nData[i] < MaxData
  /\ \E resp \in Responses :
       /\ Offers(i, Data(resp))
       /\ IF IsPositive(resp)
            THEN /\ IF CanWrite(stage[i], commands[i])
                      THEN /\ written' = [written EXCEPT
                                  ![i] = Append(@, CommandAt(commands[i], stage[i]))]
                           /\ stage' = SetStage(stage, i, stage[i] + 1)
                      ELSE UNCHANGED <<written, stage>>
                 /\ UNCHANGED <<ended, outcome>>
            ELSE /\ ended' = [ended EXCEPT ![i] = TRUE]
                 /\ outcome' = [outcome EXCEPT
                        ![i] = Reject(@, <<"SMTP Error: ">> \o resp)]
                 /\ UNCHANGED <<written, stage>>
       /\ nData' = [nData EXCEPT ![i] = @ + 1]
       /\ posTotal' = [posTotal EXCEPT
              ![i] = IF IsPositive(resp) THEN @ + 1 ELSE @]
       /\ posRun' = [posRun EXCEPT
              ![i] = IF IsPositive(resp) /\ negStage[i] = <<>> THEN @ + 1 ELSE @]
       /\ negStage' = [negStage EXCEPT
              ![i] = IF ~IsPositive(resp) /\ @ = <<>> THEN <<stage[i]>> ELSE @]
  /\ UNCHANGED closed
  /\ Delivered(i)

\* socket.on('timeout', ...)
OnTimeout(i) ==
  /\ CanDeliver(i)
  /\ Offers(i, TimeoutEv)
  /\ ended' = [ended EXCEPT ![i] = TRUE]
  /\ outcome' = [outcome EXCEPT ![i] = Reject(@, <<"SMTP connection timeout">>)]
  /\ UNCHANGED <<written, stage, nData, posTotal, posRun, negStage, closed>>
  /\ Delivered(i)

\* socket.on('error', ...)
OnError(i) ==
  /\ CanDeliver(i)
  /\ \E err \in TransportErrors :
       /\ Offers(i, ErrorEv(err))
       /\ outcome' = [outcome EXCEPT ![i] = Reject(@, err)]
  /\ UNCHANGED <<written, stage, ended, nData, posTotal, posRun, negStage, closed>>
  /\ Delivered(i)

\* socket.on('close', ...)
OnClose(i) ==
  /\ CanDeliver(i)
  /\ Offers(i, CloseEv)
  /\ outcome' = [outcome EXCEPT
        ![i] = IF CloseSucceeds(stage[i], commands[i])
                 THEN Resolve(@, messageId[i])
                 ELSE Reject(@, <<"SMTP connection closed prematurely">>)]
  /\ closed' = [closed EXCEPT ![i] = TRUE]
  /\ UNCHANGED <<written, stage, ended, nData, posTotal, posRun, negStage>>
  /\ Delivered(i)

----------------------------------------------------------------------------
(* Promise jobs of the route *)

\* the rest of the map callback of session Head(jobs), after its await
MapCallback ==
  /\ jobs # <<>>
  /\ LET i      == Head(jobs)
         result == SendEmail(body.recipients[i], outcome[i])
     IN  IF result.kind = "return"
           THEN /\ sentCount' = CountSent(result, sentCount)
                /\ failedCount' = CountFailed(result, failedCount)
                /\ details' = PushDetail(details, result)
                /\ UNCHANGED <<pc, response>>
           ELSE \* the callback's promise rejects, Promise.all rejects, line 221
                /\ response' = IF pc = "responded" THEN response
                               ELSE [NoResponse EXCEPT
                                       !.status = 500,
                                       !.message = <<"Server error while sending emails">>]
                /\ pc' = "responded"
                /\ UNCHANGED <<sentCount, failedCount, details>>
  /\ jobs' = Tail(jobs)
  /\ UNCHANGED <<mode, env, body, now, sessVars, histVars>>

\* after await Promise.all(emailPromises): res.json(...)
SendResponse ==
  /\ pc = "dispatched"
  /\ jobs = <<>>
  /\ AllCallbacksDone
  /\ response' = [status |-> 200, success |-> TRUE, sent |-> sentCount,
                  failed |-> failedCount, details |-> details, message |-> <<>>]
  /\ pc' = "responded"
  /\ UNCHANGED <<mode, env, body, now, sentCount, failedCount, details, jobs,
                 sessVars, histVars>>

----------------------------------------------------------------------------

Next ==
  \/ PostSendEmails
  \/ \E i \in Sessions : OnData(i)
  \/ \E i \in Sessions : OnTimeout(i)
  \/ \E i \in Sessions : OnError(i)
  \/ \E i \in Sessions : OnClose(i)
  \/ MapCallback
  \/ SendResponse

Spec == Init /\ [][Next]_vars

SpecScripted == InitScripted /\ [][Next]_vars

\* a terminal event of session i
Terminal(i) == OnTimeout(i) \/ OnError(i) \/ OnClose(i)

\* The event loop runs the route and every promise job that is ready; every
\* opened socket eventually emits a close, timeout or error event; a scripted
\* server eventually sends what its script says.
Fairness ==
  /\ WF_vars(PostSendEmails)
  /\ WF_vars(MapCallback)
  /\ WF_vars(SendResponse)
  /\ \A i \in 1..MaxRecipients :
       /\ WF_vars(i \in Sessions /\ Terminal(i))
       /\ WF_vars(i \in Sessions /\ mode = "scripted" /\ OnData(i))

\* both kinds of transport, under fairness
SpecFair == (Init \/ InitScripted) /\ [][Next]_vars /\ Fairness

----------------------------------------------------------------------------
(* Vocabulary of the properties *)

TimeoutError   == <<"SMTP connection timeout">>
PrematureError == <<"SMTP connection closed prematurely">>
SmtpError(r)   == <<"SMTP Error: ">> \o r
QuitCommand    == <<"QUIT", CRLF>>

\* QUIT is among the commands session i has written
QuitWritten(i) == \E k \in 1..Len(written[i]) : written[i][k] = QuitCommand

\* session i follows script sc and has received its first k events or more
Played(i, sc, k) == mode = "scripted" /\ script[i] = sc /\ pos[i] >= k

\* session i follows script sc and has received all of it
PlayedOut(i, sc) == Played(i, sc, Len(sc))

Minimum(a, b) == IF a <= b THEN a ELSE b

\* the number of entries of details with the given status
CountStatus(ds, st) == Cardinality({ k \in 1..Len(ds) : ds[k].status = st })

\* the number of sessions whose promise is in the given state
CountState(st) == Cardinality({ i \in Sessions : outcome[i].state = st })

Distinct(r) == \A i, j \in 1..Len(r) : r[i] = r[j] => i = j

----------------------------------------------------------------------------
(* C1 *)

\* C1 (as claimed): a session is Succeeded only if QUIT, the command at index 8
\* of the nine, has been written before the close event that resolved it.
C1_SucceededOnlyAfterQuit ==
  \A i \in Sessions : outcome[i].state = "fulfilled" => QuitWritten(i)

----------------------------------------------------------------------------
(* C2 *)

----------------------------------------------------------------------------
(* C3 *)

----------------------------------------------------------------------------
(* C4 *)

\* C4: a session has one outcome: once its promise is settled, no later socket
\* event changes it, neither its state nor its value.
C4_OutcomeSettlesOnce ==
  [][\A i \in Sessions :
       outcome[i].state # "pending" => outcome'[i] = outcome[i]]_vars

\* a close delivered to a session that the timeout had already failed
C4_Witness ==
  \E i \in Sessions :
    /\ lateEvent[i]
    /\ closed[i]
    /\ outcome[i] = Rejected(TimeoutError)

----------------------------------------------------------------------------
(* C5 *)

----------------------------------------------------------------------------
(* C6 *)

\* C6: after the ten replies 220 250 334 334 235 250 250 354 250 221, one per
\* data event, and the close, the session has written exactly the nine
\* commands EHLO, AUTH LOGIN, base64(user), base64(secret), MAIL FROM, RCPT TO,
\* DATA, the message content and QUIT, in that order and each once, and the
\* outcome is Succeeded with the messageId computed when the session started.
C6_HappyPath ==
  \A i \in Sessions :
    PlayedOut(i, HappyScript) =>
      /\ written[i] = commands[i]
      /\ Len(written[i]) = 9
      /\ written[i][1][1] = "EHLO "
      /\ written[i][2] = <<"AUTH LOGIN", CRLF>>
      /\ written[i][3] = Base64(env.SMTP_USER) \o <<CRLF>>
      /\ written[i][4] = Base64(env.SMTP_PASS) \o <<CRLF>>
      /\ written[i][5][1] = "MAIL FROM:<"
      /\ written[i][6][1] = "RCPT TO:<"
      /\ written[i][7] = <<"DATA", CRLF>>
      /\ written[i][8][1] = "From: "
      /\ written[i][9] = QuitCommand
      /\ outcome[i] = Fulfilled(messageId[i])
      /\ messageId[i] =
           MessageId(MailOptions(body.senderName, body.recipients[i],
                                 body.subject, body.message), now)

\* the happy path has been played to its close
C6_Witness ==
  \E i \in Sessions :
    /\ PlayedOut(i, HappyScript)
    /\ closed[i]
    /\ nData[i] = 10

----------------------------------------------------------------------------
(* C7 *)

\* C7 (as claimed): positive replies through MAIL FROM, then 550 Relay denied
\* to RCPT TO: the outcome is the protocol error carrying the raw text, the
\* stage pointer at the failure is 5, and DATA, the content and QUIT are not
\* written.
C7_RelayDeniedAtStage5 ==
  \A i \in Sessions :
    Played(i, RelayDeniedScript, 7) =>
      /\ outcome[i] = Rejected(SmtpError(R550))
      /\ negStage[i] = <<5>>
      /\ Len(written[i]) <= 6

\* C7 (amended): positive replies through MAIL FROM, then 550 Relay denied to
\* RCPT TO: the outcome is the protocol error carrying the raw text, the stage
\* pointer at the failure is 6 (RCPT TO, index 5, is the last command
\* written), and DATA, the content and QUIT are not written.
C7_RelayDeniedAtStage6 ==
  \A i \in Sessions :
    Played(i, RelayDeniedScript, 7) =>
      /\ outcome[i] = Rejected(SmtpError(R550))
      /\ negStage[i] = <<6>>
      /\ stage[i] = 6
      /\ ended[i]
      /\ written[i] = SubSeq(commands[i], 1, 6)

\* the relay rejection has been played to its close
C7_Witness ==
  \E i \in Sessions :
    /\ PlayedOut(i, RelayDeniedScript)
    /\ closed[i]
    /\ outcome[i].state = "rejected"

----------------------------------------------------------------------------
(* C8 *)

\* C8: the server is silent after the EHLO and the timeout fires: the handler
\* ends the socket, the outcome is Failed('SMTP connection timeout'), the
\* close that follows does not replace it, and only EHLO has been written.
C8_TimeoutScenario ==
  \A i \in Sessions :
    Played(i, TimeoutScript, 2) =>
      /\ ended[i]
      /\ outcome[i] = Rejected(TimeoutError)
      /\ written[i] = <<commands[i][1]>>
      /\ written[i][1][1] = "EHLO "

\* the close that follows the timeout has been delivered
C8_Witness ==
  \E i \in Sessions :
    /\ PlayedOut(i, TimeoutScript)
    /\ closed[i]
    /\ outcome[i].state = "rejected"

----------------------------------------------------------------------------
(* C9 *)

\* C9: in the response to a request with n distinct recipients, whatever the
\* interleaving of the sessions, sent + failed = n, sent and failed count the
\* entries of details with status 'sent' and 'failed', and details holds
\* every recipient exactly once.
C9_ResponseCounts ==
  (response.status = 200 /\ Distinct(body.recipients)) =>
    LET n  == Len(body.recipients)
        ds == response.details
    IN  /\ response.sent + response.failed = n
        /\ response.sent = CountStatus(ds, "sent")
        /\ response.failed = CountStatus(ds, "failed")
        /\ Len(ds) = n
        /\ \A i \in 1..n :
             Cardinality({ k \in 1..Len(ds) :
                             ds[k].recipient = body.recipients[i] }) = 1

\* a response for two distinct recipients, one sent and one failed
C9_Witness ==
  /\ response.status = 200
  /\ Len(body.recipients) = 2
  /\ Distinct(body.recipients)
  /\ response.sent = 1
  /\ response.failed = 1

----------------------------------------------------------------------------
(* C10 *)

\* C10: a failed session is one entry of details with status 'failed' and an
\* error message; it keeps no sibling from its own outcome (in a concurrent
\* request a session succeeds exactly when its own server let it); the 500
\* response is never sent, and the 400 response is sent only before any
\* session is dispatched.
C10_FailureIsolation ==
  /\ response.status # 500
  /\ response.status = 400 => socket = <<>>
  /\ response.status = 200 =>
       LET ds == response.details
       IN  /\ \A i \in Sessions : outcome[i].state # "pending"
           /\ CountStatus(ds, "failed") = CountState("rejected")
           /\ CountStatus(ds, "sent") = CountState("fulfilled")
           /\ \A k \in 1..Len(ds) :
                ds[k].status = "failed" => ds[k].error # <<>>
           /\ Len(socket) > 1 =>
                \A i \in Sessions :
                  outcome[i].state = "fulfilled"
                    <=> /\ script[i] = CloseAfterContentAckScript
                        /\ socket[i] = "open"

\* a response where a session that timed out stands next to one that was sent
C10_Witness ==
  /\ response.status = 200
  /\ \E j, k \in 1..Len(response.details) :
       /\ response.details[j].status = "failed"
       /\ response.details[j].error = TimeoutError
       /\ response.details[k].status = "sent"


----------------------------------------------------------------------------
(* C11 *)

\* C11 (as claimed): a send whose configuration is absent (no SMTP user or no
\* secret) fails before any network I/O: no socket is opened for its session.
C11_NoSocketForInvalidEnvelope ==
  \A i \in Sessions :
    EnvelopeThrows(Options) => socket[i] = "none"

----------------------------------------------------------------------------
(* C12 *)

IsDigit(c) == c \in { "0", "1", "2", "3", "4", "5", "6", "7", "8", "9" }

\* the position of the first "@" of a messageId, 0 when it has none
FirstAt(mid) ==
  IF \E k \in 1..Len(mid) : mid[k] = "@"
    THEN CHOOSE k \in 1..Len(mid) : mid[k] = "@" /\ \A j \in 1..(k-1) : mid[j] # "@"
    ELSE 0

\* mid is '<' digits '@' domain '>' with no '@' or '>' inside domain
WellFormedMessageId(mid, domain) ==
  LET a == FirstAt(mid)
  IN  /\ a > 2
      /\ mid[1] = "<"
      /\ \A k \in 2..(a-1) : IsDigit(mid[k])
      /\ mid[Len(mid)] = ">"
      /\ SubSeq(mid, a + 1, Len(mid) - 1) = domain
      /\ \A k \in 1..Len(domain) : domain[k] \notin { "@", ">" }

\* C12 (as claimed): the messageId of a session is '<' digits '@' domain '>'
\* with no '@' or '>' inside domain, its domain is the domain of the
\* authenticated SMTP user, and the one value computed at the start of the
\* session is in the Message-ID header and in the Succeeded outcome.
C12_MessageIdWellFormed ==
  \A i \in Sessions :
    socket[i] = "open" =>
      /\ WellFormedMessageId(messageId[i], At(Split(env.SMTP_USER, "@"), 1))
      /\ \E k \in 1..Len(commands[i][8]) :
           SubSeq(commands[i][8], k, k + Len(messageId[i]))
             = <<"Message-ID: ">> \o messageId[i]
      /\ outcome[i].state = "fulfilled" => outcome[i].value = messageId[i]


----------------------------------------------------------------------------
(* C13 *)

\* session i follows script sc and has received exactly its first k events
At_(i, sc, k) == mode = "scripted" /\ script[i] = sc /\ pos[i] = k

\* C13 (as claimed): a response split across two deliveries is Incomplete
\* until its CRLF has arrived: the first fragment neither advances the stage
\* pointer nor writes a command nor fails the session, and after the second
\* fragment the session stands where the whole line would have put it (the
\* reply to EHLO acknowledged: two commands written, still pending).
C13_FragmentIsBuffered ==
  \A i \in Sessions :
    /\ At_(i, FragmentedScript, 2) =>
         /\ stage[i] = 1
         /\ Len(written[i]) = 1
         /\ outcome[i] = Pending
    /\ At_(i, FragmentedScript, 3) =>
         /\ stage[i] = 2
         /\ Len(written[i]) = 2
         /\ outcome[i] = Pending

----------------------------------------------------------------------------
(* C14 *)

\* C14 (as claimed): the responses of one delivery are classified and acted
\* on one by one: two Positive lines in one delivery write two commands, and
\* a Negative line after a Positive one in the same delivery fails the
\* session with the protocol error.
C14_BatchIsSplit ==
  \A i \in Sessions :
    /\ At_(i, BatchedScript, 2) =>
         /\ stage[i] = 3
         /\ Len(written[i]) = 3
    /\ At_(i, BatchedDenyScript, 2) =>
         /\ outcome[i].state = "rejected"
         /\ ended[i]


----------------------------------------------------------------------------
(* C15 *)

----------------------------------------------------------------------------
(* C16 *)

\* C16: sessions are independent: a socket event of one session (data,
\* timeout, error or close) leaves the stage pointer, the commands written
\* and the outcome of every other session unchanged.
C16_SessionsIndependent ==
  [][\A i \in Sessions :
       pos'[i] # pos[i] =>
         \A j \in Sessions \ {i} :
           /\ stage'[j] = stage[j]
           /\ written'[j] = written[j]
           /\ outcome'[j] = outcome[j]
           /\ ended'[j] = ended[j]]_vars

\* two sessions, both past their first command, one failed and one still pending
C16_Witness ==
  \E i, j \in Sessions :
    /\ i # j
    /\ stage[i] > 0
    /\ stage[j] > 0
    /\ outcome[i].state = "rejected"
    /\ outcome[j].state = "pending"


----------------------------------------------------------------------------
(* C17 *)

\* session i has written commands 0 through 7, EHLO to the message content
ContentWritten(i) ==
  /\ Len(written[i]) >= 8
  /\ SubSeq(written[i], 1, 8) = SubSeq(commands[i], 1, 8)

\* C17: a session becomes Succeeded only in a close event and only if commands
\* 0 through 7 (EHLO through the message content) had all been written, in
\* order, before it; no more results are reported 'sent' than there are
\* sessions that wrote the message content.
C17_SucceededOnlyAfterContent ==
  /\ [][\A i \in Sessions :
          (outcome[i].state # "fulfilled" /\ outcome'[i].state = "fulfilled") =>
            /\ ContentWritten(i)
            /\ closed'[i]
            /\ written'[i] = written[i]]_vars
  /\ [](\A i \in Sessions : outcome[i].state = "fulfilled" => ContentWritten(i))
  /\ [](CountStatus(details, "sent")
          <= Cardinality({ i \in Sessions : ContentWritten(i) }))

\* a session reported 'sent' that had written the content but not QUIT
C17_Witness ==
  \E i \in Sessions :
    /\ outcome[i].state = "fulfilled"
    /\ Len(written[i]) = 8
    /\ response.status = 200
    /\ response.sent = 1


----------------------------------------------------------------------------
(* C18 *)

\* C18: for a request that passes validation the handler sends one response
\* and never a second one, and sends it only after every session has settled:
\* when the response is built, details has one entry for each dispatched
\* recipient and no session is pending.
C18_OneResponseAfterAllSettled ==
  /\ [][response' # response =>
          /\ response = NoResponse
          /\ pc # "responded"
          /\ pc' = "responded"
          /\ ValidationError(body) = <<>> =>
               /\ response'.status = 200
               /\ Len(details) = Len(body.recipients)
               /\ response'.details = details
               /\ \A i \in Sessions : outcome[i].state # "pending"]_vars
  /\ [](pc = "responded" <=> response # NoResponse)
  /\ [](response.status = 200 =>
          /\ Len(response.details) = Len(body.recipients)
          /\ Len(socket) = Len(body.recipients)
          /\ \A i \in Sessions : outcome[i].state # "pending")

\* the response to two recipients whose sessions ended differently
C18_Witness ==
  /\ response.status = 200
  /\ Len(response.details) = 2
  /\ \E i, j \in Sessions :
       outcome[i].state = "fulfilled" /\ outcome[j].state = "rejected"

----------------------------------------------------------------------------
(* C20 *)

\* C20: the entries of details are in the order in which the sessions
\* settled, not in the order of the recipients: the k-th entry is the result
\* of the k-th session to settle.
C20_DetailsInSettlementOrder ==
  /\ Len(details) <= Len(settled)
  /\ \A k \in 1..Len(details) :
       details[k] = PushDetail(<<>>, SendEmail(body.recipients[settled[k]],
                                               outcome[settled[k]]))[1]
  /\ response.status = 200 => response.details = details

\* a response whose first entry is the second recipient's
C20_Witness ==
  /\ response.status = 200
  /\ Len(response.details) = 2
  /\ Distinct(body.recipients)
  /\ settled = <<2, 1>>
  /\ response.details[1].recipient = body.recipients[2]
  /\ response.details[1].status # response.details[2].status


----------------------------------------------------------------------------
(* C19 *)

\* C19: if every opened socket eventually emits a close, timeout or error
\* event, every session eventually settles, and every request that passes
\* validation eventually gets its response.
C19_EventuallyResponds ==
  <>( /\ pc = "responded"
      /\ \A i \in Sessions : outcome[i].state # "pending"
      /\ ValidationError(body) = <<>> =>
           /\ response.status = 200
           /\ Len(response.details) = Len(body.recipients) )

\* a response after a session that settled by a transport error
C19_Witness ==
  /\ response.status = 200
  /\ \E i \in Sessions :
       /\ socket[i] = "open"
       /\ outcome[i] = Rejected(<<"read ECONNRESET">>)

====
